---- MODULE Spec2Model ----
(***************************************************************************)
(* Model of src/app/main.py: a Redis-like server.  One RedisServer object  *)
(* (storage dict, config dict) is constructed per accepted connection by   *)
(* handle_client; run() reads chunks, lower-cases them, parse_command      *)
(* tokenises them and handle_command dispatches to ping / echo / set /     *)
(* get / config.  SET ... px n starts a threading.Timer that later runs    *)
(* _clear_key.  Text is modelled as sequences of one-character strings.    *)
(***************************************************************************)
EXTENDS Integers, Sequences, FiniteSets, Bags, TLC

VARIABLES
    conn,       \* connection -> "unconnected" | "queued" | "running" | "closed"
    queue,      \* the executor's work queue of submitted connections (FIFO)
    listening,  \* the accept loop of main() is still running
    storage,    \* connection -> RedisServer.storage of its server object
    config,     \* connection -> RedisServer._config of its server object
    timers,     \* bag of started threading.Timer objects [srv, key, due]
    now,        \* the clock, in milliseconds
    closes,     \* connection -> number of times the socket was closed
    exit,       \* connection -> how its session left run(): "none" | "eof" | "error"
    last,       \* the most recent chunk handled: connection, input, bytes written
    sent,       \* history: per key, the most recent SET that was answered +OK
    chunks      \* number of chunks received so far, over all connections

vars == <<conn, queue, listening, storage, config, timers, now,
          closes, exit, last, sent, chunks>>

\* ------------------------------------------------------------------ bounds
NumConns == 2
MaxChunks == 2
MaxProtoChunks == 2
MaxTime == 1
PoolExtra == 2

\* --------------------------------------------------------------- constants
max_workers == 10

Conns == 1..NumConns

None == <<"None">>

\* ------------------------------------------------------------------- text
UpperCase == <<"A","B","C","D","E","F","G","H","I","J","K","L","M",
               "N","O","P","Q","R","S","T","U","V","W","X","Y","Z">>
LowerCase == <<"a","b","c","d","e","f","g","h","i","j","k","l","m",
               "n","o","p","q","r","s","t","u","v","w","x","y","z">>

\* a variant of LowerChar that leaves the text as it was received
LowerCharKeep(ch) == ch

\* str.lower() on one character
LowerChar(ch) ==
    IF \E i \in 1..26 : UpperCase[i] = ch
    THEN LowerCase[CHOOSE i \in 1..26 : UpperCase[i] = ch]
    ELSE ch

\* str.lower() on a string
Lower(s) == [i \in 1..Len(s) |-> LowerChar(s[i])]

DigitChars == <<"0","1","2","3","4","5","6","7","8","9">>

\* str(n) for n >= 0, as used by the f-strings that format a length
RECURSIVE Digits(_)
Digits(n) ==
    IF n < 10 THEN <<DigitChars[n + 1]>>
    ELSE Digits(n \div 10) \o <<DigitChars[(n % 10) + 1]>>

IsDigit(ch) == \E i \in 1..10 : DigitChars[i] = ch
DigitVal(ch) == (CHOOSE i \in 1..10 : DigitChars[i] = ch) - 1

RECURSIVE DigitsVal(_, _)
DigitsVal(s, acc) ==
    IF s = <<>> THEN acc ELSE DigitsVal(Tail(s), 10 * acc + DigitVal(Head(s)))

\* int(tok) succeeds on an optional sign followed by at least one decimal
\* digit; on anything else it raises ValueError
IntBody(tok) == IF tok # <<>> /\ Head(tok) \in {"+", "-"} THEN Tail(tok) ELSE tok
IsInt(tok) ==
    /\ IntBody(tok) # <<>>
    /\ \A i \in 1..Len(IntBody(tok)) : IsDigit(IntBody(tok)[i])
IntVal(tok) ==
    IF Head(tok) = "-" THEN 0 - DigitsVal(IntBody(tok), 0)
    ELSE DigitsVal(IntBody(tok), 0)

CRLF == <<"\r", "\n">>
IsSpace(ch) == ch \in {" ", "\t", "\n", "\r", "\f"}

\* re.split(r"\s+", data): cut at every maximal run of whitespace; leading or
\* trailing whitespace yields an empty first or last part
RECURSIVE SplitFrom(_, _, _, _)
SplitFrom(data, i, cur, acc) ==
    IF i > Len(data) THEN Append(acc, cur)
    ELSE IF IsSpace(data[i])
         THEN IF i > 1 /\ IsSpace(data[i - 1])
              THEN SplitFrom(data, i + 1, cur, acc)
              ELSE SplitFrom(data, i + 1, <<>>, Append(acc, cur))
         ELSE SplitFrom(data, i + 1, Append(cur, data[i]), acc)

Split(data) == SplitFrom(data, 1, <<>>, <<>>)

\* parts[4::2] in Python's 0-based indexing: parts 4, 6, 8, ...
EverySecondFrom4(parts) ==
    [j \in 1..(IF Len(parts) > 4 THEN (Len(parts) - 3) \div 2 ELSE 0)
        |-> parts[2 * j + 3]]

\* parse_command: IndexError when parts[2] does not exist
parse_command(data) ==
    LET parts == Split(data)
    IN  IF Len(parts) < 3
        THEN [raised |-> TRUE, command |-> <<>>, args |-> <<>>]
        ELSE [raised |-> FALSE, command |-> Lower(parts[3]),
              args |-> EverySecondFrom4(parts)]

\* ---------------------------------------------------------------- handlers
\* What one call of a handler does: whether it raised, the server object's
\* dictionaries afterwards, the timers it started, the bytes it wrote.
Outcome(r, st, cf, tm, rep) ==
    [raised |-> r, storage |-> st, config |-> cf, started |-> tm, reply |-> rep]

Raise(st, cf) == Outcome(TRUE, st, cf, EmptyBag, <<>>)

Px == <<"p", "x">>
OkReply == <<"+", "O", "K">> \o CRLF
NilReply == <<"$", "-", "1">> \o CRLF
PongReply == <<"+", "P", "O", "N", "G">> \o CRLF
UnknownCommandReply ==
    <<"-","E","R","R"," ","u","n","k","n","o","w","n"," ",
      "c","o","m","m","a","n","d">> \o CRLF
UnknownSubcommandReply ==
    <<"-","E","R","R"," ","u","n","k","n","o","w","n"," ",
      "s","u","b","c","o","m","m","a","n","d">> \o CRLF

\* d[key] = value on a dict
DictSet(d, key, value) ==
    [k \in DOMAIN d \cup {key} |-> IF k = key THEN value ELSE d[k]]
\* del d[key] on a dict that holds key
DictDel(d, key) == [k \in DOMAIN d \ {key} |-> d[k]]
\* d.get(key)
DictGet(d, key) == IF key \in DOMAIN d THEN d[key] ELSE None
EmptyDict == [k \in {} |-> None]

\* f"${len(value)}\r\n{value}\r\n"
BulkBytes(value) == <<"$">> \o Digits(Len(value)) \o CRLF \o value \o CRLF

\* RedisServer.set, called on server c at time t
set(c, st, cf, args, t) ==
    IF Len(args) < 2 THEN Raise(st, cf)
    ELSE LET key == args[1]
             value == args[2]
             px == Len(args) > 2 /\ args[3] = Px
         IN  IF px /\ (Len(args) < 4 \/ ~IsInt(args[4])) THEN Raise(st, cf)
             ELSE Outcome(FALSE, DictSet(st, key, value), cf,
                          IF px
                          THEN SetToBag({[srv |-> c, key |-> key,
                                          due |-> t + IntVal(args[4])]})
                          ELSE EmptyBag,
                          OkReply)

\* RedisServer.get
get(c, st, cf, args, t) ==
    IF Len(args) < 1 THEN Raise(st, cf)
    ELSE LET value == DictGet(st, args[1])
         IN  Outcome(FALSE, st, cf, EmptyBag,
                     IF value # None THEN BulkBytes(value) ELSE NilReply)

\* RedisServer.ping
ping(c, st, cf, args, t) == Outcome(FALSE, st, cf, EmptyBag, PongReply)

\* RedisServer.echo
echo(c, st, cf, args, t) ==
    IF Len(args) < 1 THEN Raise(st, cf)
    ELSE Outcome(FALSE, st, cf, EmptyBag, <<"+">> \o args[1] \o CRLF)

\* a dispatch without a default: an unknown name raises KeyError
handle_unknown_raises(c, st, cf, args, t) == Raise(st, cf)

\* RedisServer.handle_unknown
handle_unknown(c, st, cf, args, t) ==
    Outcome(FALSE, st, cf, EmptyBag, UnknownCommandReply)

\* RedisServer.config_get: the reply text
config_get(cf, parameter) ==
    LET value == DictGet(cf, parameter)
    IN  IF value = None THEN NilReply
        ELSE <<"*", "2">> \o CRLF \o BulkBytes(parameter) \o BulkBytes(value)

\* RedisServer.config_set: the dictionary afterwards (the reply is +OK)
config_set(cf, parameter, value) == DictSet(cf, parameter, value)

\* a config that treats every subcommand other than set as get
config_cmd_get_by_default(c, st, cf, args, t) ==
    IF Len(args) < 1 THEN Raise(st, cf)
    ELSE IF args[1] = <<"s", "e", "t">>
         THEN IF Len(args) < 3 THEN Raise(st, cf)
              ELSE Outcome(FALSE, st, config_set(cf, args[2], args[3]),
                           EmptyBag, OkReply)
    ELSE IF Len(args) < 2 THEN Raise(st, cf)
         ELSE Outcome(FALSE, st, cf, EmptyBag, config_get(cf, args[2]))

\* RedisServer.config
config_cmd(c, st, cf, args, t) ==
    IF Len(args) < 1 THEN Raise(st, cf)
    ELSE IF args[1] = <<"g", "e", "t">>
         THEN IF Len(args) < 2 THEN Raise(st, cf)
              ELSE Outcome(FALSE, st, cf, EmptyBag, config_get(cf, args[2]))
    ELSE IF args[1] = <<"s", "e", "t">>
         THEN IF Len(args) < 3 THEN Raise(st, cf)
              ELSE Outcome(FALSE, st, config_set(cf, args[2], args[3]),
                           EmptyBag, OkReply)
    ELSE Outcome(FALSE, st, cf, EmptyBag, UnknownSubcommandReply)

\* the keys of RedisServer.command_dispatch
CommandNames ==
    {<<"p","i","n","g">>, <<"e","c","h","o">>, <<"s","e","t">>,
     <<"g","e","t">>, <<"c","o","n","f","i","g">>}

\* command_dispatch.get(command, handle_unknown)(*args)
Dispatch(command, c, st, cf, args, t) ==
    IF command = <<"p","i","n","g">> THEN ping(c, st, cf, args, t)
    ELSE IF command = <<"e","c","h","o">> THEN echo(c, st, cf, args, t)
    ELSE IF command = <<"s","e","t">> THEN set(c, st, cf, args, t)
    ELSE IF command = <<"g","e","t">> THEN get(c, st, cf, args, t)
    ELSE IF command = <<"c","o","n","f","i","g">> THEN config_cmd(c, st, cf, args, t)
    ELSE handle_unknown(c, st, cf, args, t)

\* RedisServer.handle_command on the result p of parse_command
handle_command(p, c, st, cf, t) ==
    IF p.raised THEN Raise(st, cf)
    ELSE Dispatch(p.command, c, st, cf, p.args, t)

\* RedisServer.run: the received text is lower-cased as a whole before
\* handle_command parses it
Decode(data) == parse_command(Lower(data))

\* ------------------------------------------------------------------ inputs
\* What a client writes for one command: "*<argc>\r\n" and then every
\* argument as "$<len>\r\n<arg>\r\n" (docstring of parse_command)
RECURSIVE WireArgs(_)
WireArgs(frame) ==
    IF frame = <<>> THEN <<>> ELSE BulkBytes(Head(frame)) \o WireArgs(Tail(frame))
Wire(frame) == <<"*">> \o Digits(Len(frame)) \o CRLF \o WireArgs(frame)

RECURSIVE WireAll(_)
WireAll(frames) ==
    IF frames = <<>> THEN <<>> ELSE Wire(Head(frames)) \o WireAll(Tail(frames))

\* one received chunk: the frames the client meant and the bytes on the wire
Sends(frames) == [frames |-> frames, data |-> WireAll(frames)]
RawBytes(data) == [frames |-> <<>>, data |-> data]

PING == <<"P","I","N","G">>
ECHO == <<"E","C","H","O">>
SET == <<"S","E","T">>
GET == <<"G","E","T">>
CONFIG == <<"C","O","N","F","I","G">>

Keys == {<<"k">>, <<"j">>}
Values == {<<"v">>, <<"W">>}
Ttls == {<<"1">>}
Params == {<<"d","i","r">>, <<"f","o","o">>}

\* the keys that clients read: those they write and one that differs from a
\* written key in letter case only
GetKeys == Keys \cup {<<"K">>}

\* well-formed SET and GET commands
StoreFrames ==
    {<<SET, <<"k">>, v>> : v \in Values}
    \cup {<<SET, <<"k">>, <<"v">>, Px, n>> : n \in Ttls}
    \cup {<<SET, <<"j">>, <<"v">>>>,
          <<SET, <<"k">>, <<"W">>, <<"P","X">>, <<"1">>>>}
    \cup {<<GET, k>> : k \in GetKeys}

\* well-formed commands that do not write the key space
OtherFrames ==
    {<<PING>>, <<<<"P","i","N","g">>>>, <<<<"g","e","t">>, <<"k">>>>,
     <<SET, <<"k">>, <<"v">>>>,
     <<SET, <<"k">>, <<"v">>, <<"e","x">>, <<"1">>>>,
     <<CONFIG, <<"b","a","r">>>>}
    \cup {<<ECHO, v>> : v \in Values}
    \cup {<<CONFIG, GET, p>> : p \in Params}
    \cup {<<CONFIG, SET, <<"f","o","o">>, v>> : v \in Values}
    \cup {<<CONFIG, <<"g","e","t">>, <<"f","o","o">>>>}

\* commands whose name is not in the dispatch table
UnknownFrames ==
    {<<<<"F","O","O">>>>, <<<<"d","e","l">>, <<"k">>>>,
     <<<<"G","E","T","S">>, <<"k">>>>}

\* recognised commands with missing or invalid arguments
BadArgFrames ==
    {<<ECHO>>, <<GET>>, <<SET>>, <<SET, <<"k">>>>,
     <<SET, <<"k">>, <<"v">>, Px>>,
     <<SET, <<"k">>, <<"v">>, Px, <<"x">>>>,
     <<CONFIG>>, <<CONFIG, GET>>, <<CONFIG, SET>>,
     <<CONFIG, SET, <<"f","o","o">>>>}

\* CONFIG with a first argument that is neither get nor set
UnknownSubFrames ==
    {<<CONFIG, <<"b","a","r">>>>,
     <<CONFIG, <<"G","E","T","S">>, <<"f","o","o">>>>}

\* non-empty chunks with fewer than three whitespace-separated tokens
ShortChunks ==
    {RawBytes(CRLF),
     RawBytes(<<"*","1">> \o CRLF),
     RawBytes(PING \o CRLF),
     RawBytes(<<"*","1">> \o CRLF \o <<"$","4">>)}

\* two complete frames that arrive in one recv
DoubleChunks == {Sends(<<<<PING>>, <<ECHO, <<"v">>>>>>)}

\* one well-formed frame of every command, SET with and without a TTL marker
EffectFrames ==
    {<<PING>>, <<ECHO, <<"W">>>>, <<GET, <<"k">>>>,
     <<CONFIG, GET, <<"f","o","o">>>>,
     <<CONFIG, SET, <<"f","o","o">>, <<"W">>>>,
     <<SET, <<"j">>, <<"v">>>>,
     <<SET, <<"k">>, <<"v">>, Px, <<"1">>>>,
     <<SET, <<"k">>, <<"W">>, <<"P","X">>, <<"1">>>>,
     <<<<"s","e","t">>, <<"k">>, <<"v">>, <<"P","x">>, <<"1">>>>,
     <<SET, <<"k">>, <<"v">>, <<"e","x">>, <<"1">>>>}
EffectInputs == {Sends(<<f>>) : f \in EffectFrames}

\* the chunks of the key-space specification and of the protocol specification
StoreInputs == {Sends(<<f>>) : f \in StoreFrames}
ProtoInputs ==
    {Sends(<<f>>) : f \in OtherFrames \cup UnknownFrames \cup BadArgFrames
                          \cup UnknownSubFrames}
    \cup ShortChunks \cup DoubleChunks
Inputs == StoreInputs \cup ProtoInputs \cup EffectInputs

\* Decode and the client's reading of its own frame, tabulated per input
Decoded == [d \in Inputs |-> Decode(d.data)]

\* ------------------------------------------------------------------- state
NoEvent == [kind |-> "none", conn |-> 0, input |-> RawBytes(<<>>),
            reply |-> <<>>, raised |-> FALSE, at |-> 0]

\* the command line of this run: --dir /t and no --dbfilename
startup == [dir |-> <<"/","t">>, dbfilename |-> None]

Init ==
    /\ conn = [c \in Conns |-> "unconnected"]
    /\ queue = <<>>
    /\ listening = TRUE
    /\ storage = [c \in Conns |-> EmptyDict]
    /\ config = [c \in Conns |-> EmptyDict]
    /\ timers = EmptyBag
    /\ now = 0
    /\ closes = [c \in Conns |-> 0]
    /\ exit = [c \in Conns |-> "none"]
    /\ last = NoEvent
    /\ sent = EmptyDict
    /\ chunks = 0

Running == {c \in DOMAIN conn : conn[c] = "running"}

\* main: accept() returns connection c and it is submitted to the executor
Accept(c) ==
    /\ listening
    /\ conn[c] = "unconnected"
    /\ conn' = [conn EXCEPT ![c] = "queued"]
    /\ queue' = Append(queue, c)
    /\ UNCHANGED <<listening, storage, config, timers, now, closes,
                   exit, last, sent, chunks>>

\* main: accept() raises socket.error / OSError; the accept loop ends
ListenerFail ==
    /\ listening
    /\ listening' = FALSE
    /\ UNCHANGED <<conn, queue, storage, config, timers, now, closes,
                   exit, last, sent, chunks>>

\* RedisServer.__init__: the two dictionaries of a new server object
NewStorage == EmptyDict
NewConfig(args) ==
    [k \in {<<"d","i","r">>, <<"d","b","f","i","l","e","n","a","m","e">>} |->
        IF k = <<"d","i","r">> THEN args.dir ELSE args.dbfilename]

\* a pool that starts a thread for every submitted connection
WorkerFreeAlways == TRUE

\* ThreadPoolExecutor(max_workers=10): a worker is idle, or fewer than
\* max_workers threads exist
WorkerFree == Cardinality(Running) < max_workers

\* a free worker of the pool takes the oldest submitted connection and
\* handle_client constructs its RedisServer
Start(c) ==
    /\ queue # <<>> /\ Head(queue) = c
    /\ WorkerFree
    /\ queue' = Tail(queue)
    /\ conn' = [conn EXCEPT ![c] = "running"]
    /\ storage' = [storage EXCEPT ![c] = NewStorage]
    /\ config' = [config EXCEPT ![c] = NewConfig(startup)]
    /\ UNCHANGED <<listening, timers, now, closes, exit, last, sent,
                   chunks>>

\* history: the SET of connection c that was answered +OK at time t, and the
\* SET on the same key that came before it
IsSetFrame(f) == Len(f) >= 3 /\ Lower(f[1]) = <<"s","e","t">>
HasTtl(f) == Len(f) >= 5 /\ Lower(f[4]) = Px /\ IsInt(f[5])
NoSet == [conn |-> 0, value |-> <<>>, px |-> FALSE]
Record(c, d, o, t) ==
    IF Len(d.frames) = 1 /\ IsSetFrame(d.frames[1]) /\ ~o.raised
    THEN LET f == d.frames[1]
             key == f[2]
         IN  DictSet(sent, key,
                 [conn |-> c, value |-> f[3], px |-> HasTtl(f),
                  expiresAt |-> IF HasTtl(f) THEN t + IntVal(f[5]) ELSE 0,
                  prev |-> IF key \in DOMAIN sent
                           THEN [conn |-> sent[key].conn,
                                 value |-> sent[key].value,
                                 px |-> sent[key].px]
                           ELSE NoSet])
    ELSE sent

\* a session that closes its socket in a finally clause and again on leaving
\* the with block
CloseTwice(count, c) == [count EXCEPT ![c] = @ + 2]

\* handle_client: leaving the with block closes the session's socket
CloseOnce(count, c) == [count EXCEPT ![c] = @ + 1]

\* an exception that is not contained in its session ends every running one
TerminateAll(status, c) ==
    [o \in Conns |-> IF status[o] = "running" THEN "closed" ELSE status[o]]

\* handle_client: an exception raised in run() is caught and logged, and the
\* with block closes this session's connection only
Terminate(status, c) == [status EXCEPT ![c] = "closed"]

\* RedisServer.run, one iteration with a non-empty chunk, and handle_client's
\* except / with when the handler raises
Recv(c, d) ==
    /\ conn[c] = "running"
    /\ d.data # <<>>
    /\ LET o == handle_command(Decoded[d], c, storage[c], config[c], now)
       IN  /\ storage' = [storage EXCEPT ![c] = o.storage]
           /\ config' = [config EXCEPT ![c] = o.config]
           /\ timers' = timers (+) o.started
           /\ conn' = IF o.raised THEN Terminate(conn, c) ELSE conn
           /\ closes' = IF o.raised THEN CloseOnce(closes, c) ELSE closes
           /\ exit' = [exit EXCEPT ![c] = IF o.raised THEN "error" ELSE @]
           /\ last' = [kind |-> "recv", conn |-> c, input |-> d,
                       reply |-> o.reply, raised |-> o.raised, at |-> now]
           /\ sent' = Record(c, d, o, now)
    /\ chunks' = chunks + 1
    /\ UNCHANGED <<queue, listening, now>>

\* RedisServer.run: recv returns b"" (the peer closed), the loop breaks and
\* handle_client's with block closes the connection
PeerClose(c) ==
    /\ conn[c] = "running"
    /\ conn' = [conn EXCEPT ![c] = "closed"]
    /\ closes' = CloseOnce(closes, c)
    /\ exit' = [exit EXCEPT ![c] = "eof"]
    /\ UNCHANGED <<queue, listening, storage, config, timers, now,
                   last, sent, chunks>>

\* RedisServer.run: recv raises OSError (connection reset); handle_client
\* logs it and its with block closes the connection
IOError(c) ==
    /\ conn[c] = "running"
    /\ conn' = Terminate(conn, c)
    /\ closes' = CloseOnce(closes, c)
    /\ exit' = [exit EXCEPT ![c] = "error"]
    /\ UNCHANGED <<queue, listening, storage, config, timers, now,
                   last, sent, chunks>>

\* a deletion that empties the whole key space
_clear_key_all(st, key) == [raised |-> FALSE, storage |-> EmptyDict]

\* RedisServer._clear_key run by a Timer thread: del self.storage[key], which
\* raises KeyError in that thread when the key is absent
_clear_key(st, key) ==
    IF key \in DOMAIN st THEN [raised |-> FALSE, storage |-> DictDel(st, key)]
    ELSE [raised |-> TRUE, storage |-> st]

\* a started Timer whose interval has elapsed runs its function
TimerFire(tm) ==
    /\ tm \in BagToSet(timers)
    /\ tm.due <= now
    /\ timers' = timers (-) SetToBag({tm})
    /\ LET r == _clear_key(storage[tm.srv], tm.key)
       IN  /\ storage' = [storage EXCEPT ![tm.srv] = r.storage]
           /\ last' = [kind |-> "timer", conn |-> tm.srv,
                       input |-> RawBytes(tm.key), reply |-> <<>>,
                       raised |-> r.raised, at |-> now]
    /\ UNCHANGED <<conn, queue, listening, config, now, closes, exit,
                   sent, chunks>>

TimerStep == \E tm \in BagToSet(timers) : TimerFire(tm)

\* one millisecond passes
Tick ==
    /\ now < MaxTime
    /\ now' = now + 1
    /\ UNCHANGED <<conn, queue, listening, storage, config, timers,
                   closes, exit, last, sent, chunks>>

\* ---------------------------------------------------------- specifications
\* The key space: clients send well-formed SET and GET frames, timers run.
StoreRecv == \E c \in Conns : \E d \in StoreInputs : chunks < MaxChunks /\ Recv(c, d)

Next ==
    \/ \E c \in Conns : Accept(c)
    \/ \E c \in Conns : Start(c)
    \/ StoreRecv
    \/ \E c \in Conns : PeerClose(c)
    \/ TimerStep
    \/ Tick

Spec == Init /\ [][Next]_vars

\* The protocol: clients send every other kind of chunk, connections and the
\* listener may fail.
ProtoRecv ==
    \E c \in Conns : \E d \in ProtoInputs : chunks < MaxProtoChunks /\ Recv(c, d)

NextProto ==
    \/ \E c \in Conns : Accept(c)
    \/ ListenerFail
    \/ \E c \in Conns : Start(c)
    \/ ProtoRecv
    \/ \E c \in Conns : PeerClose(c)
    \/ \E c \in Conns : IOError(c)

SpecProto == Init /\ [][NextProto]_vars

\* The effects of the commands: clients send one frame of every command and
\* timers run; no session ends.
EffectRecv ==
    \E c \in Conns : \E d \in EffectInputs : chunks < MaxChunks /\ Recv(c, d)

NextEffect ==
    \/ \E c \in Conns : Accept(c)
    \/ \E c \in Conns : Start(c)
    \/ EffectRecv
    \/ TimerStep
    \/ Tick

SpecEffect == Init /\ [][NextEffect]_vars

\* The worker pool: more connections arrive than the pool has workers; the
\* connections are numbered in the order in which accept() returns them and
\* their clients send nothing before they close.
PoolConns == 1..(max_workers + PoolExtra)

InitPool ==
    /\ conn = [c \in PoolConns |-> "unconnected"]
    /\ queue = <<>>
    /\ listening = TRUE
    /\ storage = [c \in PoolConns |-> EmptyDict]
    /\ config = [c \in PoolConns |-> EmptyDict]
    /\ timers = EmptyBag
    /\ now = 0
    /\ closes = [c \in PoolConns |-> 0]
    /\ exit = [c \in PoolConns |-> "none"]
    /\ last = NoEvent
    /\ sent = EmptyDict
    /\ chunks = 0

AcceptInOrder ==
    \E c \in PoolConns :
        /\ \A o \in 1..(c - 1) : conn[o] # "unconnected"
        /\ Accept(c)

NextPool ==
    \/ AcceptInOrder
    \/ \E c \in PoolConns : Start(c)
    \/ \E c \in PoolConns : PeerClose(c)

SpecPool == InitPool /\ [][NextPool]_vars

TypeOK ==
    /\ \A c \in Conns : conn[c] \in {"unconnected", "queued", "running", "closed"}
    /\ now \in 0..MaxTime
    /\ chunks \in 0..(MaxChunks + MaxProtoChunks)

\* ------------------------------------------------------------------ claims
\* the most recent step handled exactly the frame f
LastFrameIs(f) == last.kind = "recv" /\ last.input.frames = <<f>>

\* C1: after a session had SET key value (no TTL) answered and no later SET on
\* the key, its GET key replies the bulk string of the value as it was sent.
C1_SetGetRoundTrip ==
    \A k \in Keys :
        (/\ LastFrameIs(<<GET, k>>)
         /\ k \in DOMAIN sent
         /\ sent[k].conn = last.conn
         /\ ~sent[k].px)
        => last.reply = BulkBytes(sent[k].value)

\* C2: a GET key of one open session replies the value that a different open
\* session had SET (no TTL) before, because there is one store for all.
C2_SharedStore ==
    \A k \in Keys :
        (/\ LastFrameIs(<<GET, k>>)
         /\ k \in DOMAIN sent
         /\ sent[k].conn # last.conn
         /\ conn[sent[k].conn] = "running"
         /\ ~sent[k].px)
        => last.reply = BulkBytes(sent[k].value)

\* C3: when the most recent SET of a key carried px ttl and ttl milliseconds
\* had elapsed when a GET of that key was handled, the GET replied nil.
C3_ExpiredNeverReturned ==
    \A k \in Keys :
        (/\ LastFrameIs(<<GET, k>>)
         /\ k \in DOMAIN sent
         /\ sent[k].conn = last.conn
         /\ sent[k].px
         /\ last.at >= sent[k].expiresAt)
        => last.reply = NilReply

\* the reply a GET key would receive from the server of connection c now
GetNow(c, k) == get(c, storage[c], config[c], <<k>>, now).reply

\* C4: after the timer of an older SET key .. px fired although the key has
\* been SET again since (with no TTL, or a TTL not yet elapsed), GET key
\* still replies the newer value.
C4_StaleTimerKeepsNewer ==
    \A k \in Keys :
        (/\ last.kind = "timer" /\ last.input.data = k
         /\ k \in DOMAIN sent
         /\ sent[k].conn = last.conn
         /\ (~sent[k].px \/ last.at < sent[k].expiresAt))
        => GetNow(last.conn, k) = BulkBytes(sent[k].value)

\* C5: once two running sessions have each had a SET of the same key (no TTL)
\* answered, a GET of the key replies to both the same value, which is the
\* value of one of the two SETs.
C5_ConcurrentIsolation ==
    \A k \in Keys :
        (/\ k \in DOMAIN sent
         /\ sent[k].prev.conn \notin {0, sent[k].conn}
         /\ ~sent[k].px /\ ~sent[k].prev.px
         /\ conn[sent[k].conn] = "running"
         /\ conn[sent[k].prev.conn] = "running")
        => /\ GetNow(sent[k].conn, k) = GetNow(sent[k].prev.conn, k)
           /\ GetNow(sent[k].conn, k) \in
                 {BulkBytes(sent[k].value), BulkBytes(sent[k].prev.value)}

\* C6: ECHO s replies the simple string of s as it was sent.
C6_EchoIdentity ==
    \A s \in Values :
        LastFrameIs(<<ECHO, s>>) => last.reply = <<"+">> \o s \o CRLF

\* C7: a non-empty chunk with fewer than three tokens is answered with an
\* error reply and its handling does not end the session.
C7_ShortChunkErrorReply ==
    (last.kind = "recv" /\ last.input \in ShortChunks)
    => /\ ~last.raised
       /\ last.reply # <<>> /\ Head(last.reply) = "-"

\* a step that received one chunk
RecvStep == chunks' = chunks + 1

\* C8: a recognised command with missing or invalid arguments is answered
\* with an error reply, changes neither dictionary and leaves the session
\* running.
C8_BadArgsErrorReply ==
    [][(RecvStep /\ \E f \in BadArgFrames : last'.input.frames = <<f>>)
       => /\ last'.reply # <<>> /\ Head(last'.reply) = "-"
          /\ storage' = storage /\ config' = config
          /\ conn'[last'.conn] = "running"]_vars

\* C9: a frame whose command name is not in the dispatch table is answered
\* -ERR unknown command, changes neither dictionary and leaves the session
\* running.
C9_UnknownCommand ==
    [][(RecvStep /\ \E f \in UnknownFrames : last'.input.frames = <<f>>)
       => /\ last'.reply = UnknownCommandReply
          /\ storage' = storage /\ config' = config
          /\ conn'[last'.conn] = "running"]_vars

\* a session that holds data has just answered an unknown command
C9_Witness ==
    /\ \E f \in UnknownFrames : LastFrameIs(f)
    /\ last.reply = UnknownCommandReply
    /\ DOMAIN storage[last.conn] # {}
    /\ conn[last.conn] = "running"

\* C10: a step in which one session ends with an error changes nothing of any
\* other session, of the work queue or of the accept loop.
C10_FaultIsolation ==
    [][\A c \in Conns :
          (exit[c] = "none" /\ exit'[c] = "error")
          => /\ \A o \in Conns \ {c} :
                   /\ conn'[o] = conn[o] /\ exit'[o] = exit[o]
                   /\ closes'[o] = closes[o]
                   /\ storage'[o] = storage[o] /\ config'[o] = config[o]
             /\ queue' = queue
             /\ listening' = listening]_vars

\* a handler has just raised in one session while another session that holds
\* data is running and the listener is accepting
C10_Witness ==
    /\ last.kind = "recv" /\ last.raised
    /\ exit[last.conn] = "error"
    /\ listening
    /\ \E o \in Conns \ {last.conn} :
           conn[o] = "running" /\ DOMAIN storage[o] # {}

\* C11: a session that has left its loop, by end of input or by an error, has
\* closed its connection exactly once, a session that has not left it has
\* not closed it, and bytes are written only on a connection that is open.
C11_ClosedExactlyOnce ==
    [][/\ \A c \in Conns :
             /\ (exit'[c] # "none") <=> (conn'[c] = "closed")
             /\ closes'[c] = IF conn'[c] = "closed" THEN 1 ELSE 0
       /\ (RecvStep /\ last'.reply # <<>>)
              => (conn[last'.conn] = "running" /\ closes'[last'.conn] = 0)]_vars

\* one session has ended by end of input and another by an error, after a
\* reply had been written
C11_Witness ==
    /\ \E c, o \in Conns :
           /\ exit[c] = "eof" /\ closes[c] = 1
           /\ exit[o] = "error" /\ closes[o] = 1
    /\ last.kind = "recv" /\ last.reply # <<>>

\* C12: after SET key value px N with no later SET on the key, a GET key that
\* is handled before N milliseconds have elapsed replies the bulk string of
\* the value (and once the timer has run the key is gone until it is SET
\* again).
C12_TtlExpiry ==
    \A k \in Keys :
        /\ (/\ LastFrameIs(<<GET, k>>)
            /\ k \in DOMAIN sent
            /\ sent[k].conn = last.conn
            /\ sent[k].px
            /\ last.at < sent[k].expiresAt)
           => last.reply = BulkBytes(sent[k].value)
        /\ (/\ last.kind = "timer" /\ last.input.data = k
            /\ k \in DOMAIN sent
            /\ sent[k].conn = last.conn
            /\ sent[k].px
            /\ last.at >= sent[k].expiresAt)
           => GetNow(last.conn, k) = NilReply

\* C13: a CONFIG GET p that a session sends right after its CONFIG SET p v was
\* answered replies the array of p and v as they were sent, and a CONFIG GET
\* of a parameter that holds no value replies nil.
C13_ConfigRoundTrip ==
    [][/\ \A p \in Params : \A v \in Values :
             (/\ LastFrameIs(<<CONFIG, SET, p, v>>) /\ last.reply = OkReply
              /\ RecvStep /\ last'.conn = last.conn
              /\ last'.input.frames = <<<<CONFIG, GET, p>>>>)
             => last'.reply =
                    <<"*", "2">> \o CRLF \o BulkBytes(p) \o BulkBytes(v)
       /\ \A p \in Params :
             (/\ RecvStep /\ last'.input.frames = <<<<CONFIG, GET, p>>>>
              /\ DictGet(config[last'.conn], p) = None)
             => last'.reply = NilReply]_vars

\* C14: a CONFIG whose first argument is neither get nor set, in any letter
\* case, is answered -ERR unknown subcommand and changes neither dictionary.
C14_UnknownSubcommand ==
    [][(RecvStep /\ \E f \in UnknownSubFrames : last'.input.frames = <<f>>)
       => /\ last'.reply = UnknownSubcommandReply
          /\ storage' = storage /\ config' = config]_vars

\* a session whose dictionaries both hold data has just answered a CONFIG
\* with an unknown subcommand that carries an argument
C14_Witness ==
    /\ LastFrameIs(<<CONFIG, <<"G","E","T","S">>, <<"f","o","o">>>>)
    /\ last.reply = UnknownSubcommandReply
    /\ DictGet(config[last.conn], <<"d","i","r">>) # None
    /\ \E o \in Conns : DOMAIN storage[o] # {}

\* C15: at most max_workers sessions run at a time; a connection starts its
\* session only when fewer than max_workers are running, so one accepted
\* while all workers are busy waits until a session has ended; and the accept
\* loop can take the next connection also while all workers are busy.
C15_BoundedPool ==
    [][/\ Cardinality(Running') <= max_workers
       /\ \A c \in PoolConns :
             (conn[c] = "queued" /\ conn'[c] = "running")
             => Cardinality(Running) < max_workers
       /\ (/\ Cardinality(Running') = max_workers
           /\ \E c \in PoolConns : conn'[c] = "unconnected")
          => (ENABLED AcceptInOrder)']_vars

\* all workers are busy and two more connections have been accepted and wait
C15_Witness ==
    /\ Cardinality(Running) = max_workers
    /\ Len(queue) = 2

\* C16: GET on a key that no client has SET replies the nil bulk string,
\* whatever other commands and timer expirations came before.
C16_NeverSetIsNil ==
    \A k \in GetKeys :
        (LastFrameIs(<<GET, k>>) /\ k \notin DOMAIN sent)
        => last.reply = NilReply

\* the same for keys that differ from every SET key in more than letter case
C16_NeverSetIsNilFolded ==
    \A k \in GetKeys :
        (/\ LastFrameIs(<<GET, k>>)
         /\ \A w \in DOMAIN sent : Lower(w) # Lower(k))
        => last.reply = NilReply

\* the command of a frame reads only: PING, ECHO, GET and CONFIG GET
ReadOnlyFrame(f) ==
    \/ Lower(f[1]) \in {<<"p","i","n","g">>, <<"e","c","h","o">>, <<"g","e","t">>}
    \/ Lower(f[1]) = Lower(CONFIG) /\ Len(f) >= 2 /\ Lower(f[2]) = <<"g","e","t">>
ConfigSetFrame(f) ==
    Lower(f[1]) = Lower(CONFIG) /\ Len(f) >= 2 /\ Lower(f[2]) = <<"s","e","t">>
\* a step in which a Timer thread ran
TimerRan == timers' # timers /\ chunks' = chunks

\* C17: PING, ECHO, GET and CONFIG GET leave every key space and every
\* configuration unchanged, SET leaves the configurations unchanged, CONFIG SET
\* leaves the key spaces unchanged, and a timer changes nothing but the entry
\* of its own key in its own key space.
C17_FrameEffects ==
    [][/\ \A f \in EffectFrames :
             (RecvStep /\ last'.input.frames = <<f>>)
             => /\ ReadOnlyFrame(f) => (storage' = storage /\ config' = config)
                /\ IsSetFrame(f) => config' = config
                /\ ConfigSetFrame(f) => storage' = storage
       /\ TimerRan
          => /\ config' = config
             /\ \A c \in Conns : \A k \in GetKeys :
                   (c # last'.conn \/ k # last'.input.data)
                   => DictGet(storage'[c], k) = DictGet(storage[c], k)]_vars

\* a timer has deleted k from a key space that still holds j
C17_Witness ==
    /\ last.kind = "timer"
    /\ ~last.raised
    /\ last.input.data = <<"k">>
    /\ DOMAIN storage[last.conn] = {<<"j">>}

\* the TTL marker in every letter case, and the command name SET likewise
PxAnyCase == {<<p, x>> : p \in {"p", "P"}, x \in {"x", "X"}}
SetAnyCase == {SET, <<"s","e","t">>}

\* C18: SET key value PX n, the marker in any letter case, stores the key and
\* starts one timer that deletes the key n milliseconds later; SET key value
\* and SET key value ex n store the value and start no timer.
C18_PxAnyCase ==
    [][\A f \in EffectFrames :
          (RecvStep /\ last'.input.frames = <<f>> /\ f[1] \in SetAnyCase)
          => LET c == last'.conn
             IN  IF Len(f) >= 5 /\ f[4] \in PxAnyCase
                 THEN /\ f[2] \in DOMAIN storage'[c]
                      /\ timers' = timers (+) SetToBag({[srv |-> c, key |-> f[2],
                                          due |-> now + IntVal(f[5])]})
                 ELSE /\ DictGet(storage'[c], f[2]) = f[3]
                      /\ timers' = timers]_vars

\* set k v Px 1 has been answered and its timer is pending
C18_Witness ==
    /\ LastFrameIs(<<<<"s","e","t">>, <<"k">>, <<"v">>, <<"P","x">>, <<"1">>>>)
    /\ last.reply = OkReply
    /\ [srv |-> last.conn, key |-> <<"k">>, due |-> last.at + 1]
           \in BagToSet(timers)

\* C19: two complete frames that arrive in one chunk are answered by two
\* replies, in the order of the frames.
C19_OneReplyPerFrame ==
    \A d \in DoubleChunks :
        (last.kind = "recv" /\ last.input = d)
        => last.reply = PongReply \o <<"+", "v">> \o CRLF

\* one frame per chunk is answered by that frame's reply, here for PING and ECHO
C19_OneFramePerChunk ==
    /\ LastFrameIs(<<PING>>) => last.reply = PongReply
    /\ LastFrameIs(<<ECHO, <<"v">>>>) => last.reply = <<"+", "v">> \o CRLF

\* C20: a timer that runs when its key is not in the key space raises nothing
\* and changes no key space.
C20_TimerOnAbsentKey ==
    [][(/\ TimerRan
        /\ DictGet(storage[last'.conn], last'.input.data) = None)
       => (~last'.raised /\ storage' = storage)]_vars

\* the same step as the code takes it: KeyError in the Timer thread, the key
\* spaces and the sessions untouched
C20_AbsentKeyRaisesInTimerThread ==
    [][(/\ TimerRan
        /\ DictGet(storage[last'.conn], last'.input.data) = None)
       => (last'.raised /\ storage' = storage /\ conn' = conn)]_vars

====
